---- MODULE Spec2Model ----
(***************************************************************************)
(* A model of nshoot's simulation core: the geometry helpers of            *)
(* nshoot/utils.py (Vector, Bounds), the entities of nshoot/elements.py    *)
(* (Player, Bullet), the strategy base of nshoot/strategy.py and the frame *)
(* loop of nshoot/game.py (Game.__init__, Game.update,                     *)
(* Game._register_hits).                                                   *)
(*                                                                         *)
(* Units.  Positions are whole pixels.  Times are whole milliseconds:      *)
(* GameView.start passes delta_time = clock.get_time() / 1000, a whole     *)
(* number of milliseconds, and the frame times used here are multiples of  *)
(* 25 ms, so that speed * delta_time is a whole number of pixels for the   *)
(* speeds used (multiples of 40 px/s).  Directions are the axis-aligned    *)
(* vectors, for which Vector.normalize is exact.  A distance test          *)
(* hypot(dx, dy) <= r is the exact integer test dx^2 + dy^2 <= r^2.        *)
(*                                                                         *)
(* Objects are values, except in the part on objects in memory, where the  *)
(* Vector and Bounds objects have addresses and in-place operators change  *)
(* the object that every holder of the address sees.                       *)
(*                                                                         *)
(* game.py hands Player.move a tuple and Player.shoot a Direction; both    *)
(* are read as the Vector with the same components.                        *)
(***************************************************************************)
EXTENDS Integers, Sequences, FiniteSets, TLC

VARIABLES
    players,    \* Game.players: the list of Player objects
    bullets,    \* Game.bullets: the list of Bullet objects
    now,        \* time.time(), in milliseconds since the players were made
    frame,      \* number of completed calls of Game.update
    last,       \* history of the last frame: inputs and intermediate values
    shotLog,    \* history: per player, the times at which shoot returned a bullet
    calls,      \* number of method calls made on a player or a bullet on its own
    bargs,      \* the keyword arguments given to Bounds(...)
    bounds,     \* the Bounds object built from bargs, or ValueError
    position,   \* the Vector handed to Bounds.bound_position
    padding,    \* the padding handed to Bounds.bound_position
    given,      \* the position as it was before any bound_position call
    applied,    \* number of bound_position calls made on position
    first,      \* position after the first bound_position call
    strategy,   \* a Strategy object: its class, player_id, info and own fields
    intent,     \* history: the last get_move call, the strategy before it and its result
    heap,       \* the Vector and Bounds objects in memory, by address
    refs,       \* a Player, a Bullet and their snapshots, holding addresses
    made        \* history: the arguments Game(num_players, stats) was made with

vars == <<players, bullets, now, frame, last, shotLog, calls,
          bargs, bounds, position, padding, given, applied, first,
          strategy, intent, heap, refs, made>>

gameVars == <<players, bullets, now, frame, last, shotLog, calls>>
boundsVars == <<bargs, bounds, position, padding, given, applied, first>>
strategyVars == <<strategy, intent>>
heapVars == <<heap, refs>>

(***************************************************************************)
(* Bounds of the model.                                                    *)
(***************************************************************************)
\* Frames of Game.update explored.
MaxFrames == 2
\* Players of the game (Game.__init__'s num_players).
NumPlayers == 3
\* Bounds limits tried are None and 0, 10, .., 10 * MaxLimit.
MaxLimit == 2
\* Paddings tried are -5, 0, 5, .., 5 * MaxPadding.
MaxPadding == 3
\* Standalone shoot calls: the clock runs to 25 * MaxClock milliseconds.
MaxClock == 14
\* Standalone set_bounds, set_position and move calls made on one player.
MaxCalls == 3

(***************************************************************************)
(* Program constants.                                                      *)
(***************************************************************************)
WIDTH == 800
HEIGHT == 800
DEFAULT_BULLET_SPEED == 800
PLAYER_RADIUS == 15
BULLET_RADIUS == 5

(***************************************************************************)
(* Optional[float]: None is the empty sequence, a value v is <<v>>.        *)
(***************************************************************************)
None == <<>>
Some(v) == <<v>>
IsNone(o) == o = <<>>
Val(o) == o[1]

(***************************************************************************)
(* utils.Vector                                                            *)
(***************************************************************************)
Vector(x, y) == [x |-> x, y |-> y]
Zero == Vector(0, 0)

Sign(n) == IF n > 0 THEN 1 ELSE IF n < 0 THEN -1 ELSE 0

\* Vector.normalize, on the axis-aligned vectors: self / magnitude, or zero.
Normalize(v) ==
    IF v.x = 0 /\ v.y = 0 THEN Vector(0, 0)
    ELSE Vector(Sign(v.x), Sign(v.y))

Neg(v) == Vector(-v.x, -v.y)
VAdd(a, b) == Vector(a.x + b.x, a.y + b.y)
VScale(a, k) == Vector(a.x * k, a.y * k)

\* The Vector (x / 3, y / 3): a direction shorter than 1, as a float Vector can
\* be.  Its x and y carry the signs, which is all Vector.normalize needs here.
Thirds(x, y) == [x |-> x, y |-> y, den |-> 3]
IsThirds(v) == "den" \in DOMAIN v

\* Vector.__mul__ by a number, for whole components and for thirds.
Times(a, k) ==
    IF IsThirds(a) THEN Vector((a.x * k) \div a.den, (a.y * k) \div a.den)
    ELSE VScale(a, k)

\* hypot(a - b) <= r, for r >= 0
Within(a, b, r) ==
    (a.x - b.x) * (a.x - b.x) + (a.y - b.y) * (a.y - b.y) <= r * r

\* Vector(1, 1) * direction * speed * delta_time, delta_time in milliseconds
Displacement(direction, speed, dt) ==
    Vector((direction.x * speed * dt) \div 1000, (direction.y * speed * dt) \div 1000)

(***************************************************************************)
(* utils.Bounds                                                            *)
(***************************************************************************)
ValueError == [error |-> "ValueError"]
\* No object yet: the constructor has not been called.
Unbuilt == [error |-> "unbuilt"]
IsBounds(b) == "x_max" \in DOMAIN b

BoundsArgs(xmax, xmin, ymax, ymin) ==
    [x_max |-> xmax, x_min |-> xmin, y_max |-> ymax, y_min |-> ymin]

\* A mutant of InvalidBounds: the y axis is not checked.
InvalidBoundsXOnly(a) ==
    ~IsNone(a.x_min) /\ ~IsNone(a.x_max) /\ Val(a.x_min) > Val(a.x_max)

\* The two checks of Bounds.__init__ that raise ValueError.
InvalidBounds(a) ==
    \/ (~IsNone(a.x_min) /\ ~IsNone(a.x_max) /\ Val(a.x_min) > Val(a.x_max))
    \/ (~IsNone(a.y_min) /\ ~IsNone(a.y_max) /\ Val(a.y_min) > Val(a.y_max))

\* Bounds.__init__: the object, or the error raised.
NewBounds(a) ==
    IF InvalidBounds(a) THEN ValueError
    ELSE [x_max |-> a.x_max, x_min |-> a.x_min, y_max |-> a.y_max, y_min |-> a.y_min]

\* Bounds.duplicate
Duplicate(b) ==
    NewBounds(BoundsArgs(b.x_max, b.x_min, b.y_max, b.y_min))

\* A mutant of BoundAxis: the max side forgets the padding.
BoundAxisNoMaxPadding(c, lo, hi, pad) ==
    LET c1 == IF ~IsNone(lo) /\ c < Val(lo) + pad THEN Val(lo) + pad ELSE c
    IN  IF ~IsNone(hi) /\ c1 > Val(hi) THEN Val(hi) ELSE c1

\* A mutant of BoundAxis: the min side adds the limit instead of setting it.
BoundAxisShift(c, lo, hi, pad) ==
    LET c1 == IF ~IsNone(lo) /\ c < Val(lo) + pad THEN c + Val(lo) + pad ELSE c
    IN  IF ~IsNone(hi) /\ c1 > Val(hi) - pad THEN Val(hi) - pad ELSE c1

\* One axis of bound_position: the min test, then the max test on its result.
BoundAxis(c, lo, hi, pad) ==
    LET c1 == IF ~IsNone(lo) /\ c < Val(lo) + pad THEN Val(lo) + pad ELSE c
    IN  IF ~IsNone(hi) /\ c1 > Val(hi) - pad THEN Val(hi) - pad ELSE c1

\* Bounds.bound_position: the position after the in-place clamp.
BoundPosition(b, pos, pad) ==
    Vector(BoundAxis(pos.x, b.x_min, b.x_max, pad),
           BoundAxis(pos.y, b.y_min, b.y_max, pad))

(***************************************************************************)
(* info.PlayerInformation, info.BulletInformation, info.GameInformation    *)
(***************************************************************************)
\* PlayerInformation(radius, position, bounds): position and bounds duplicated.
PlayerInformation(radius, pos, b) ==
    [radius |-> radius, position |-> Vector(pos.x, pos.y), bounds |-> Duplicate(b)]

\* BulletInformation(radius, position, direction): both vectors duplicated.
BulletInformation(radius, pos, dir) ==
    [radius |-> radius, position |-> Vector(pos.x, pos.y), direction |-> Vector(dir.x, dir.y)]

\* GameInformation(): no players, no bullets.
EmptyInformation == [players |-> <<>>, bullets |-> <<>>]

(***************************************************************************)
(* elements.Bullet                                                         *)
(***************************************************************************)
\* Bullet.__init__
NewBullet(origin, direction, damage, speed) ==
    [position |-> origin, direction |-> Normalize(direction),
     damage |-> damage, speed |-> speed]

\* Bullet.get_info
BulletGetInfo(b) == BulletInformation(BULLET_RADIUS, b.position, b.direction)

\* A mutant of BulletMove: the displacement is dropped, the bullet hangs
\* where it is.
BulletMoveHalts(b, dt) == b

\* A mutant of BulletMove: the bullet loses half its speed with every move.
BulletMoveDrag(b, dt) ==
    [b EXCEPT !.position = VAdd(b.position, Displacement(b.direction, b.speed, dt)),
              !.speed = b.speed \div 2]

\* Bullet.move
BulletMove(b, dt) ==
    [b EXCEPT !.position = VAdd(b.position, Displacement(b.direction, b.speed, dt))]

\* Bullet.out_of_bounds
OutOfBounds(b) ==
    LET x_out == b.position.x > WIDTH \/ b.position.x < 0
        y_out == b.position.y > HEIGHT \/ b.position.y < 0
    IN  x_out \/ y_out

(***************************************************************************)
(* elements.Player                                                         *)
(***************************************************************************)
\* Player.__init__ at time t: full health, no bounds, at the origin, and a
\* strategy holding the empty GameInformation of Strategy.__init__.
NewPlayer(id, stats, t) ==
    [player_id |-> id,
     damage |-> stats.damage, max_health |-> stats.max_health,
     health |-> stats.max_health,
     speed |-> stats.speed, firerate |-> stats.firerate,
     last_shot_time |-> t,
     position |-> Vector(0, 0),
     bounds |-> NewBounds(BoundsArgs(None, None, None, None)),
     info |-> EmptyInformation]

\* Player.get_info
PlayerGetInfo(p) == PlayerInformation(PLAYER_RADIUS, p.position, p.bounds)

\* A mutant of Bound: the position is left as it is.
BoundSkipped(p) == p

\* Player._bound
Bound(p) ==
    [p EXCEPT !.position = BoundPosition(p.bounds, p.position, PLAYER_RADIUS)]

\* Player.set_position
SetPosition(p, pos) == Bound([p EXCEPT !.position = Vector(pos.x, pos.y)])

\* Player.set_bounds
SetBounds(p, b) == Bound([p EXCEPT !.bounds = b])

\* Player.move
Move(p, direction, dt) ==
    Bound([p EXCEPT !.position =
               VAdd(p.position, Displacement(Normalize(direction), p.speed, dt))])

\* A mutant of OnCooldown: the cooldown is taken to be half as long.
OnCooldownHalved(p, t) == (t - p.last_shot_time) * p.firerate * 2 < 1000

\* The cooldown test of Player.shoot at time t:
\* time.time() < last_shot_time + 1 / firerate, in milliseconds.
OnCooldown(p, t) == (t - p.last_shot_time) * p.firerate < 1000

\* A mutant of Shoot: a rejected call stamps last_shot_time all the same.
ShootStamps(p, direction, t) ==
    IF OnCooldown(p, t) \/ direction = Zero
    THEN [player |-> [p EXCEPT !.last_shot_time = t], bullet |-> None]
    ELSE [player |-> [p EXCEPT !.last_shot_time = t],
          bullet |-> Some(NewBullet(
              VAdd(p.position, Times(direction, PLAYER_RADIUS + BULLET_RADIUS + 1)),
              direction, p.damage, DEFAULT_BULLET_SPEED))]

\* Player.shoot at time t: the player afterwards and the Optional[Bullet].
\* The two reads of time.time() in one call both return t.
Shoot(p, direction, t) ==
    IF OnCooldown(p, t) \/ direction = Zero
    THEN [player |-> p, bullet |-> None]
    ELSE [player |-> [p EXCEPT !.last_shot_time = t],
          bullet |-> Some(NewBullet(
              VAdd(p.position, Times(direction, PLAYER_RADIUS + BULLET_RADIUS + 1)),
              direction, p.damage, DEFAULT_BULLET_SPEED))]

\* A mutant of Hit: the floor at 0 is missing.
HitNoFloor(p, b) == [p EXCEPT !.health = p.health - b.damage]

\* Player.hit: health less the damage, set to 0 when that is 0 or less.
\* (The recolouring that follows reads health and changes only the colour.)
Hit(p, b) ==
    LET h == p.health - b.damage
    IN  [p EXCEPT !.health = IF h <= 0 THEN 0 ELSE h]

\* Player.is_dead
IsDead(p) == p.health <= 0

(***************************************************************************)
(* strategy.Strategy and its subclasses.  A strategy object is a record    *)
(* with its class (kind), player_id, info, and the fields of the           *)
(* subclasses: going_down (BounceStrategy) and target_id (SemiSmartStrategy*)
(* and SmartStrategy).  GameInformation.players, a dict, is the sequence   *)
(* of its entries in insertion order, which is the order keys() yields.    *)
(* get_move yields the strategy afterwards and the pair returned, or the   *)
(* error raised.  Distances are compared as reals: hypot(..) against a     *)
(* whole number c is compared through the squares.                         *)
(***************************************************************************)
KeyError == [error |-> "KeyError"]
IsError(r) == "error" \in DOMAIN r

GameInformation(entries, bs) == [players |-> entries, bullets |-> bs]
Entry(id, info) == [id |-> id, info |-> info]

\* key in info.players
HasPlayer(info, id) == \E k \in DOMAIN info.players : info.players[k].id = id

\* info.players[id], for a key of the dict
PlayerOf(info, id) ==
    info.players[CHOOSE k \in DOMAIN info.players : info.players[k].id = id].info

\* Strategy.__init__, BounceStrategy.__init__, SemiSmartStrategy.__init__,
\* SmartStrategy.__init__
NewStrategy(kind, id) ==
    [kind |-> kind, player_id |-> id, info |-> EmptyInformation,
     going_down |-> TRUE, target_id |-> id]

\* Strategy.update_info
UpdateInfo(st, info) == [st EXCEPT !.info = info]

Returned(st, move, aim) == [strategy |-> st, result |-> [move |-> move, aim |-> aim]]
Raised(st, e) == [strategy |-> st, result |-> e]

RECURSIVE SelectFrom(_, _, _)
\* The loop of Strategy._select_random_target from entry k on: the first key
\* that is not player_id; falling off the loop returns None.
SelectFrom(entries, id, k) ==
    IF k > Len(entries) THEN None
    ELSE IF entries[k].id # id THEN Some(entries[k].id)
    ELSE SelectFrom(entries, id, k + 1)

\* A mutant of SelectRandomTarget: the test against player_id is missing.
SelectFirstKey(st) ==
    IF st.info.players = <<>> THEN None ELSE Some(st.info.players[1].id)

\* Strategy._select_random_target
SelectRandomTarget(st) == SelectFrom(st.info.players, st.player_id, 1)

\* A mutant of IdleGetMove: the player drifts down.
IdleGetMoveDrift(st) == Returned(st, Vector(0, 1), Zero)

\* IdleStrategy.get_move
IdleGetMove(st) == Returned(st, Zero, Zero)

\* A mutant of BounceGetMove: the call that switches returns the intent of the
\* state it leaves.
BounceGetMoveLate(st) ==
    IF ~HasPlayer(st.info, st.player_id) THEN Raised(st, KeyError)
    ELSE LET own == PlayerOf(st.info, st.player_id).position
         IN  IF st.going_down
             THEN Returned([st EXCEPT !.going_down = ~(own.y >= 785)],
                           Vector(0, 1), Vector(1, 0))
             ELSE Returned([st EXCEPT !.going_down = own.y <= 15],
                           Vector(0, -1), Vector(-1, 0))

\* A mutant of BounceGetMove: the lower threshold is one pixel further down
\* than a player's centre can get.
BounceGetMoveBeyond(st) ==
    IF ~HasPlayer(st.info, st.player_id) THEN Raised(st, KeyError)
    ELSE LET own == PlayerOf(st.info, st.player_id).position
         IN  IF st.going_down
             THEN IF own.y >= 786
                  THEN Returned([st EXCEPT !.going_down = FALSE], Vector(0, -1), Vector(-1, 0))
                  ELSE Returned(st, Vector(0, 1), Vector(1, 0))
             ELSE IF own.y <= 15
                  THEN Returned([st EXCEPT !.going_down = TRUE], Vector(0, 1), Vector(1, 0))
                  ELSE Returned(st, Vector(0, -1), Vector(-1, 0))

\* What a get_move call returns or raises, with the number of self-calls that
\* were open above the call that answered.
Nested(r, depth) == [strategy |-> r.strategy, result |-> r.result, depth |-> depth]

\* A mutant of BounceCall: the call that switches hands over to a call that
\* only re-reads the position, and that one to the call that answers.
BounceCallTwice(st, depth) ==
    IF ~HasPlayer(st.info, st.player_id) THEN Nested(Raised(st, KeyError), depth)
    ELSE LET own == PlayerOf(st.info, st.player_id).position
         IN  IF st.going_down
             THEN IF own.y >= 785
                  THEN Nested(Returned([st EXCEPT !.going_down = FALSE],
                                       Vector(0, -1), Vector(-1, 0)), depth + 2)
                  ELSE Nested(Returned(st, Vector(0, 1), Vector(1, 0)), depth)
             ELSE IF own.y <= 15
                  THEN Nested(Returned([st EXCEPT !.going_down = TRUE],
                                       Vector(0, 1), Vector(1, 0)), depth + 2)
                  ELSE Nested(Returned(st, Vector(0, -1), Vector(-1, 0)), depth)

RECURSIVE BounceCall(_, _)
\* BounceStrategy.get_move, entered with depth self-calls open above it: the
\* lookup of the own position, the switch of going_down followed by the
\* recursive call, or the intent of the state.
BounceCall(st, depth) ==
    IF ~HasPlayer(st.info, st.player_id) THEN Nested(Raised(st, KeyError), depth)
    ELSE LET own == PlayerOf(st.info, st.player_id).position
         IN  IF st.going_down
             THEN IF own.y >= 785
                  THEN BounceCall([st EXCEPT !.going_down = FALSE], depth + 1)
                  ELSE Nested(Returned(st, Vector(0, 1), Vector(1, 0)), depth)
             ELSE IF own.y <= 15
                  THEN BounceCall([st EXCEPT !.going_down = TRUE], depth + 1)
                  ELSE Nested(Returned(st, Vector(0, -1), Vector(-1, 0)), depth)

\* BounceStrategy.get_move as its caller makes it.
BounceGetMove(st) == BounceCall(st, 0)

\* SemiSmartStrategy.get_move.  self.info.players[None] raises KeyError: no
\* key of the dict is None.
SemiSmartGetMove(st) ==
    IF ~HasPlayer(st.info, st.player_id) THEN Raised(st, KeyError)
    ELSE LET target == SelectRandomTarget(st)
         IN  IF IsNone(target) THEN Raised(st, KeyError)
             ELSE LET player_pos == PlayerOf(st.info, st.player_id).position
                      target_pos == PlayerOf(st.info, Val(target)).position
                      shoot == IF target_pos.x < player_pos.x THEN Vector(-1, 0)
                               ELSE IF target_pos.x > player_pos.x THEN Vector(1, 0)
                               ELSE Vector(0, 0)
                      move == IF target_pos.y > player_pos.y THEN Vector(0, 1)
                              ELSE IF target_pos.y < player_pos.y THEN Vector(0, -1)
                              ELSE Vector(0, 0)
                  IN  Returned(st, move, shoot)

Abs(n) == IF n < 0 THEN -n ELSE n

\* The square of Vector.distance
Dist2(a, b) == (a.x - b.x) * (a.x - b.x) + (a.y - b.y) * (a.y - b.y)

\* sqrt(d2) <= c and sqrt(d2) >= c, for a whole number c
DistLe(d2, c) == c >= 0 /\ d2 <= c * c
DistGe(d2, c) == c <= 0 \/ d2 >= c * c

\* b + k * sqrt(d2) <= c and b + k * sqrt(d2) >= c, for k in {-1, 0, 1}: a
\* coordinate of bullet.direction * bullet_dist + bullet.position against c.
ProjLe(b, k, d2, c) ==
    IF k = 0 THEN b <= c ELSE IF k = 1 THEN DistLe(d2, c - b) ELSE DistGe(d2, b - c)
ProjGe(b, k, d2, c) ==
    IF k = 0 THEN b >= c ELSE IF k = 1 THEN DistGe(d2, c - b) ELSE DistLe(d2, b - c)

\* The test of SmartStrategy._get_closest_dangerous_bullet, lines 203-204
Dangerous(player, bullet) ==
    Dist2(player.position, bullet.position)
        > Dist2(player.position, VAdd(bullet.position, bullet.direction))

RECURSIVE FarthestFrom(_, _, _, _)
\* A mutant of MinFrom: max instead of min.
FarthestFrom(bs, pos, k, best) ==
    IF k > Len(bs) THEN best
    ELSE FarthestFrom(bs, pos, k + 1,
                 IF Dist2(pos, bs[k].position) > Dist2(pos, best.position) THEN bs[k] ELSE best)

RECURSIVE MinFrom(_, _, _, _)
\* min(bs, key=distance to pos) from element k on: a later element replaces
\* the best so far only when its key is strictly less.
MinFrom(bs, pos, k, best) ==
    IF k > Len(bs) THEN best
    ELSE MinFrom(bs, pos, k + 1,
                 IF Dist2(pos, bs[k].position) < Dist2(pos, best.position) THEN bs[k] ELSE best)

\* SmartStrategy._get_closest_dangerous_bullet: Optional[BulletInformation]
GetClosestDangerousBullet(st) ==
    IF Len(st.info.bullets) = 0 THEN None
    ELSE LET player == PlayerOf(st.info, st.player_id)
             dangerous_bullets == SelectSeq(st.info.bullets, LAMBDA b : Dangerous(player, b))
         IN  IF dangerous_bullets = <<>> THEN None
             ELSE Some(MinFrom(dangerous_bullets, player.position, 2, dangerous_bullets[1]))

\* SmartStrategy.get_move, lines 180-191: the move for the bullet chosen.
Dodge(player, bullet) ==
    LET d2 == Dist2(player.position, bullet.position)
        margin == player.radius + bullet.radius + 100
        in_x == /\ ProjGe(bullet.position.x, bullet.direction.x, d2, player.position.x - margin)
                /\ ProjLe(bullet.position.x, bullet.direction.x, d2, player.position.x + margin)
        in_y == /\ ProjGe(bullet.position.y, bullet.direction.y, d2, player.position.y - margin)
                /\ ProjLe(bullet.position.y, bullet.direction.y, d2, player.position.y + margin)
        sign == IF ~ProjGe(bullet.position.y, bullet.direction.y, d2, player.position.y)
                THEN 1 ELSE -1
    IN  Vector(IF in_x THEN 1 * Abs(bullet.direction.y) * sign ELSE 0,
               IF in_y THEN 1 * Abs(bullet.direction.x) * sign ELSE 0)

\* SmartStrategy.get_move
SmartGetMove(st) ==
    IF ~HasPlayer(st.info, st.player_id) THEN Raised(st, KeyError)
    ELSE LET target == SelectRandomTarget(st)
         IN  IF IsNone(target) THEN Raised(st, KeyError)
             ELSE LET player == PlayerOf(st.info, st.player_id)
                      bullet == GetClosestDangerousBullet(st)
                  IN  Returned(st, IF IsNone(bullet) THEN Zero ELSE Dodge(player, Val(bullet)),
                               Zero)

\* strategy.get_move(), dispatched on the class
GetMove(st) ==
    CASE st.kind = "idle" -> IdleGetMove(st)
      [] st.kind = "bounce" -> BounceGetMove(st)
      [] st.kind = "semismart" -> SemiSmartGetMove(st)
      [] st.kind = "smart" -> SmartGetMove(st)

(***************************************************************************)
(* The pure-function specification of Bounds: the arguments are drawn in   *)
(* Init, the actions build, duplicate and apply.                           *)
(***************************************************************************)
Limits == {None} \cup {Some(10 * k) : k \in 0..MaxLimit}
Coords == {-10, 5, 15, 30}
Paddings == {5 * k : k \in -1..MaxPadding}

IdleGame ==
    /\ players = <<>>
    /\ bullets = <<>>
    /\ now = 0
    /\ frame = 0
    /\ last = <<>>
    /\ shotLog = <<>>
    /\ calls = 0

\* No strategy object is under test.
NoIntent == [error |-> "none"]
IdleStrategies ==
    /\ strategy = [error |-> "none"]
    /\ intent = NoIntent

\* No object is followed in memory.
NoRefs == [error |-> "none"]
IdleHeap ==
    /\ heap = <<>>
    /\ refs = NoRefs

IdleBounds ==
    /\ bargs = BoundsArgs(None, None, None, None)
    /\ bounds = Unbuilt
    /\ position = Zero
    /\ padding = 0
    /\ given = Zero
    /\ applied = 0
    /\ first = Zero

BoundsInit ==
    /\ IdleGame
    /\ IdleStrategies
    /\ bargs \in {BoundsArgs(a, b, c, d) : a \in Limits, b \in Limits,
                                           c \in {None, Some(20)}, d \in {None, Some(0), Some(30)}}
    /\ bounds = Unbuilt
    /\ position \in {Vector(x, y) : x \in Coords, y \in {5, 30}}
    /\ padding \in Paddings
    /\ given = position
    /\ applied = 0
    /\ first = position
    /\ IdleHeap
    /\ made = Unbuilt

\* bounds = Bounds(**bargs)
Construct ==
    /\ bounds = Unbuilt
    /\ bounds' = NewBounds(bargs)
    /\ UNCHANGED <<bargs, position, padding, given, applied, first>>
    /\ UNCHANGED gameVars
    /\ UNCHANGED strategyVars
    /\ UNCHANGED heapVars
    /\ UNCHANGED made

\* bounds.bound_position(position, padding)
ApplyBound ==
    /\ IsBounds(bounds)
    /\ applied < 2
    /\ position' = BoundPosition(bounds, position, padding)
    /\ first' = IF applied = 0 THEN position' ELSE first
    /\ applied' = applied + 1
    /\ UNCHANGED <<bargs, bounds, padding, given>>
    /\ UNCHANGED gameVars
    /\ UNCHANGED strategyVars
    /\ UNCHANGED heapVars
    /\ UNCHANGED made

\* bounds = bounds.duplicate()
DuplicateBounds ==
    /\ IsBounds(bounds)
    /\ bounds' = Duplicate(bounds)
    /\ UNCHANGED <<bargs, position, padding, given, applied, first>>
    /\ UNCHANGED gameVars
    /\ UNCHANGED strategyVars
    /\ UNCHANGED heapVars
    /\ UNCHANGED made

BoundsNext == Construct \/ ApplyBound \/ DuplicateBounds

SpecBounds == BoundsInit /\ [][BoundsNext]_vars

(***************************************************************************)
(* Claims about Bounds, checked under SpecBounds.                          *)
(***************************************************************************)
BothSet(lo, hi) == ~IsNone(lo) /\ ~IsNone(hi)
InPadded(c, lo, hi, pad) == Val(lo) + pad <= c /\ c <= Val(hi) - pad

\* C7 as stated: after bound_position(pos, padding), on every axis with both
\* min and max set the coordinate lies within [min + padding, max - padding],
\* for all positions, paddings and bounds.
C7_Original ==
    (applied >= 1 /\ IsBounds(bounds)) =>
        /\ BothSet(bounds.x_min, bounds.x_max) =>
               InPadded(position.x, bounds.x_min, bounds.x_max, padding)
        /\ BothSet(bounds.y_min, bounds.y_max) =>
               InPadded(position.y, bounds.y_min, bounds.y_max, padding)

\* C7 amended: after bound_position(pos, padding), on every axis with both min
\* and max set and min + padding <= max - padding, the coordinate lies within
\* [min + padding, max - padding]; when min + padding > max - padding the
\* coordinate is max - padding.
C7_WithinPaddedBounds ==
    (applied >= 1 /\ IsBounds(bounds)) =>
        /\ BothSet(bounds.x_min, bounds.x_max) =>
               IF Val(bounds.x_min) + padding <= Val(bounds.x_max) - padding
               THEN InPadded(position.x, bounds.x_min, bounds.x_max, padding)
               ELSE position.x = Val(bounds.x_max) - padding
        /\ BothSet(bounds.y_min, bounds.y_max) =>
               IF Val(bounds.y_min) + padding <= Val(bounds.y_max) - padding
               THEN InPadded(position.y, bounds.y_min, bounds.y_max, padding)
               ELSE position.y = Val(bounds.y_max) - padding

\* C7 witness: a clamp with a positive padding moved a coordinate that lay
\* above max - padding into the padded interval of a fully set x axis.
C7_Witness ==
    /\ applied = 1
    /\ IsBounds(bounds)
    /\ BothSet(bounds.x_min, bounds.x_max)
    /\ padding > 0
    /\ Val(bounds.x_min) + padding <= Val(bounds.x_max) - padding
    /\ given.x > Val(bounds.x_max) - padding
    /\ position.x = Val(bounds.x_max) - padding

\* C8: bound_position applied twice with the same padding leaves the position
\* equal to the result of applying it once, for every Bounds (any subset of
\* the four limits set), position and padding.
C8_Idempotent ==
    applied = 2 => position = first

\* C8 witness: two calls were made, the first call moved the position, on
\* bounds with one limit unset and a padded interval that is empty on x.
C8_Witness ==
    /\ applied = 2
    /\ first # given
    /\ IsNone(bounds.y_max)
    /\ BothSet(bounds.x_min, bounds.x_max)
    /\ Val(bounds.x_min) + padding > Val(bounds.x_max) - padding

\* C9: Bounds(...) with min > max on a fully set axis raises and yields no
\* object; otherwise it yields the object with the limits given; every Bounds
\* object, also one returned by duplicate, has min <= max on each fully set axis.
C9_ConstructionValidates ==
    bounds # Unbuilt =>
        LET badX == BothSet(bargs.x_min, bargs.x_max) /\ Val(bargs.x_min) > Val(bargs.x_max)
            badY == BothSet(bargs.y_min, bargs.y_max) /\ Val(bargs.y_min) > Val(bargs.y_max)
        IN  /\ (badX \/ badY) => bounds = ValueError
            /\ ~(badX \/ badY) => bounds = bargs
            /\ IsBounds(bounds) =>
                   /\ BothSet(bounds.x_min, bounds.x_max) => Val(bounds.x_min) <= Val(bounds.x_max)
                   /\ BothSet(bounds.y_min, bounds.y_max) => Val(bounds.y_min) <= Val(bounds.y_max)

\* C9 witness: a construction with y_min > y_max (and a valid x axis) raised.
C9_Witness ==
    /\ bounds = ValueError
    /\ BothSet(bargs.y_min, bargs.y_max) /\ Val(bargs.y_min) > Val(bargs.y_max)
    /\ BothSet(bargs.x_min, bargs.x_max) /\ Val(bargs.x_min) <= Val(bargs.x_max)

(***************************************************************************)
(* game.Game                                                               *)
(***************************************************************************)
\* config.DEFAULT_STATS = (1000, 400, 10, 10, 100), read in the order of
\* Player.__init__'s parameters after the id: damage, speed, max_health,
\* firerate; Game.__init__ gives a player its index as id and the fifth entry
\* has no parameter to go to.
DEFAULT_STATS == [damage |-> 1000, speed |-> 400, max_health |-> 10, firerate |-> 10]

\* A stats tuple a caller of Game(num_players, stats) passes for a player.
WeakStats == [damage |-> 6, speed |-> 400, max_health |-> 10, firerate |-> 10]

\* A stats tuple with a slower gun, for a player made on its own.
SlowStats == [damage |-> 6, speed |-> 400, max_health |-> 10, firerate |-> 4]

\* The element of a one-element set.  Only({ e(x) : x \in {v} }) is e(v) with
\* v evaluated once.
Only(S) == CHOOSE v \in S : TRUE

RECURSIVE Repeat(_, _)
\* [v] * n
Repeat(v, n) == IF n <= 0 THEN <<>> ELSE <<v>> \o Repeat(v, n - 1)

\* Game.__init__, lines 32-33: a short stats list is completed with defaults.
PadStats(stats, n) ==
    IF Len(stats) > 0 THEN stats \o Repeat(DEFAULT_STATS, n - Len(stats))
    ELSE Repeat(DEFAULT_STATS, n)

\* Game.__init__, lines 35-41: one player, made at time t, bounded to the
\* field and put at the drawn position.
FieldBounds == NewBounds(BoundsArgs(Some(WIDTH), Some(0), Some(HEIGHT), Some(0)))

MakePlayer(id, stats, pos, t) ==
    SetPosition(SetBounds(NewPlayer(id, stats, t), FieldBounds), pos)

\* Variant: the missing move inputs are filled with a step to the east.
PadMovesEast(moves, n) == moves \o Repeat(Vector(1, 0), n - Len(moves))

\* Game.update, lines 72-75: missing inputs are zero moves and no aim.
PadMoves(moves, n) == moves \o Repeat(Zero, n - Len(moves))
PadShoots(shoots, n) == shoots \o Repeat(None, n - Len(shoots))

\* Game.update, lines 80-85: does player i, at its current position, overlap
\* another player of the list?
Collides(ps, i) ==
    \E j \in 1..Len(ps) :
        /\ j # i
        /\ Within(ps[i].position, ps[j].position, PLAYER_RADIUS + PLAYER_RADIUS)

\* A mutant of Blocked: the player stays where the move took it.
BlockedStay(p, move, dt) == p

\* Game.update, line 86: the response to an overlap.
Blocked(p, move, dt) == Move(p, Neg(move), dt)

\* Game.update, lines 89-92 for player i, already moved to p, at time t.
ShootStep(st, i, p, shoots, t) ==
    Only({ [ps |-> [st.ps EXCEPT ![i] = shot.player],
            bs |-> IF IsNone(shot.bullet) THEN st.bs ELSE Append(st.bs, Val(shot.bullet)),
            shots |-> IF IsNone(shot.bullet) THEN st.shots
                      ELSE [st.shots EXCEPT ![i] = Append(@, t)]] :
           shot \in { IF IsNone(shoots[i]) THEN [player |-> p, bullet |-> None]
                      ELSE Shoot(p, Val(shoots[i]), t) } })

\* Game.update, lines 78-87 for player i: the move, and the response when the
\* moved player overlaps another.
MoveStep(ps, i, moves, dt) ==
    Only({ IF Collides([ps EXCEPT ![i] = p1], i) THEN Blocked(p1, moves[i], dt) ELSE p1 :
           p1 \in { Move(ps[i], moves[i], dt) } })

\* A mutant of StepPlayer: the player shoots from where it stands and moves
\* afterwards.
StepPlayerShootsFirst(st, i, moves, shoots, dt, t) ==
    Only({ [s EXCEPT !.ps[i] = MoveStep(s.ps, i, moves, dt)] :
           s \in { ShootStep(st, i, st.ps[i], shoots, t) } })

\* Game.update, lines 78-92 for player i at time t: move, respond to an
\* overlap, shoot.  st holds the players, the bullets and the shot log so far.
StepPlayer(st, i, moves, shoots, dt, t) ==
    Only({ ShootStep(st, i, p2, shoots, t) : p2 \in { MoveStep(st.ps, i, moves, dt) } })

RECURSIVE StepPlayers(_, _, _, _, _, _)
\* Game.update, the loop of lines 77-92 from player i on.
StepPlayers(st, i, moves, shoots, dt, t) ==
    IF i > Len(st.ps) THEN st
    ELSE Only({ StepPlayers(s, i + 1, moves, shoots, dt, t) :
                s \in { StepPlayer(st, i, moves, shoots, dt, t) } })

\* Game.update, lines 93-94
MoveBullets(bs, dt) == [j \in 1..Len(bs) |-> BulletMove(bs[j], dt)]

RECURSIVE LastHit(_, _, _)
\* A mutant of FirstHit: the loop has no break, the last overlapping player
\* is the one kept.
LastHit(ps, b, i) ==
    IF i > Len(ps) THEN 0
    ELSE LET rest == LastHit(ps, b, i + 1)
         IN  IF rest # 0 THEN rest
             ELSE IF Within(ps[i].position, b.position, PLAYER_RADIUS + BULLET_RADIUS) THEN i
             ELSE 0

RECURSIVE FirstHit(_, _, _)
\* Game._register_hits, lines 55-61: the first player from index i on that
\* the bullet overlaps, or 0.
FirstHit(ps, b, i) ==
    IF i > Len(ps) THEN 0
    ELSE IF Within(ps[i].position, b.position, PLAYER_RADIUS + BULLET_RADIUS) THEN i
    ELSE FirstHit(ps, b, i + 1)

\* A mutant of HitStep: the players are tried first, the bounds only for a
\* bullet that overlaps nobody.
HitStepHitsFirst(r, bs, j) ==
    Only({ IF i = 0 THEN (IF OutOfBounds(bs[j]) THEN [r EXCEPT !.dead = Append(@, bs[j])]
                          ELSE r)
           ELSE [ps |-> [r.ps EXCEPT ![i] = Hit(r.ps[i], bs[j])],
                 dead |-> Append(r.dead, bs[j]),
                 log |-> Append(r.log, <<j, i>>)] :
           i \in { FirstHit(r.ps, bs[j], 1) } })

\* Game._register_hits, lines 50-61 for bullet j: r holds the players after
\* the hits so far, the dead bullets in order and the log of hit calls
\* <<bullet, player>>.
HitStep(r, bs, j) ==
    IF OutOfBounds(bs[j]) THEN [r EXCEPT !.dead = Append(@, bs[j])]
    ELSE Only({ IF i = 0 THEN r
                ELSE [ps |-> [r.ps EXCEPT ![i] = Hit(r.ps[i], bs[j])],
                      dead |-> Append(r.dead, bs[j]),
                      log |-> Append(r.log, <<j, i>>)] :
                i \in { FirstHit(r.ps, bs[j], 1) } })

RECURSIVE HitLoop(_, _, _)
\* Game._register_hits, the loop of lines 50-61 from bullet j on.
HitLoop(r, bs, j) ==
    IF j > Len(bs) THEN r
    ELSE Only({ HitLoop(r2, bs, j + 1) : r2 \in { HitStep(r, bs, j) } })

\* A mutant of RemoveFirst: the head of the list is removed, whichever bullet
\* was marked.
RemoveHead(bs, b) == IF bs = <<>> THEN <<>> ELSE Tail(bs)

RECURSIVE RemoveFirst(_, _)
\* list.remove(b): the list without its first element equal to b.
RemoveFirst(bs, b) ==
    IF bs = <<>> THEN <<>>
    ELSE IF Head(bs) = b THEN Tail(bs)
    ELSE <<Head(bs)>> \o RemoveFirst(Tail(bs), b)

RECURSIVE RemoveAll(_, _)
\* Game._register_hits, lines 63-64
RemoveAll(bs, dead) ==
    IF dead = <<>> THEN bs
    ELSE RemoveAll(RemoveFirst(bs, Head(dead)), Tail(dead))

\* Game._register_hits
RegisterHits(ps, bs) ==
    Only({ [ps |-> r.ps, bs |-> RemoveAll(bs, r.dead), log |-> r.log] :
           r \in { HitLoop([ps |-> ps, dead |-> <<>>, log |-> <<>>], bs, 1) } })

(***************************************************************************)
(* The game: Init is the state Game.__init__ leaves, Update is one call of *)
(* Game.update.                                                            *)
(***************************************************************************)
\* Input slots the caller fills: config.MOVE_SOURCES and SHOOT_SOURCES hold
\* one source each.
UserPlayers == 1

EAST == Vector(1, 0)
WEST == Vector(-1, 0)
NORTH == Vector(0, -1)
SOUTH == Vector(0, 1)

\* Positions drawn by random.randint in Game.__init__: a firing lane with two
\* players standing close together, a corner with a neighbour two steps away,
\* and a corner with a neighbour that overlaps from the start.
Placements ==
    { <<Vector(400, 400), Vector(515, 400), Vector(500, 400)>>,
      <<Vector(0, 0), Vector(50, 15), Vector(800, 800)>>,
      <<Vector(0, 0), Vector(40, 15), Vector(800, 800)>> }

Place(pl, i) == IF i <= Len(pl) THEN pl[i] ELSE Vector(WIDTH, 0)

StatsLists == { <<>>, <<WeakStats>> }
MoveInputs == {Zero, EAST, WEST, NORTH}
ShootInputs == {None, Some(EAST), Some(WEST)}
MoveLists == UNION {[1..n -> MoveInputs] : n \in 0..UserPlayers}
ShootLists == UNION {[1..n -> ShootInputs] : n \in 0..UserPlayers}
FrameTimes == {0, 50, 100}

\* History of a frame: the arguments as padded, how many inputs the caller
\* supplied (moves, shoots), every player's position, health and number of
\* bullets fired before the frame, the bullets before the frame (flying),
\* after the player loop (fired) and as advanced (moved), the hit calls.
NoFrame ==
    [dt |-> 0, moves |-> <<>>, shoots |-> <<>>, supplied |-> <<0, 0>>,
     pre |-> <<>>, health |-> <<>>, shots |-> <<>>,
     flying |-> <<>>, fired |-> <<>>, moved |-> <<>>, log |-> <<>>]

Init ==
    /\ IdleBounds
    /\ IdleStrategies
    /\ now = 0
    /\ frame = 0
    /\ \E pl \in Placements, stats \in StatsLists :
           /\ players = [i \in 1..NumPlayers |->
                             MakePlayer(i, PadStats(stats, NumPlayers)[i], Place(pl, i), 0)]
           /\ made = [num_players |-> NumPlayers, stats |-> stats]
    /\ bullets = <<>>
    /\ last = NoFrame
    /\ shotLog = [i \in 1..NumPlayers |-> <<>>]
    /\ calls = 0
    /\ IdleHeap

\* The body of Game.update(delta_time, move_inputs, shoot_inputs), run while
\* time.time() reads t.
FrameAt(t, dt, move_inputs, shoot_inputs) ==
    \E moves \in {PadMoves(move_inputs, Len(players))},
       shoots \in {PadShoots(shoot_inputs, Len(players))} :
    \E stepped \in {StepPlayers([ps |-> players, bs |-> bullets, shots |-> shotLog],
                                1, moves, shoots, dt, t)} :
    \E moved \in {MoveBullets(stepped.bs, dt)} :
    \E hits \in {RegisterHits(stepped.ps, moved)} :
        /\ now' = t
        /\ players' = hits.ps
        /\ bullets' = hits.bs
        /\ shotLog' = stepped.shots
        /\ last' = [dt |-> dt, moves |-> moves, shoots |-> shoots,
                    supplied |-> <<Len(move_inputs), Len(shoot_inputs)>>,
                    pre |-> [i \in 1..Len(players) |-> players[i].position],
                    health |-> [i \in 1..Len(players) |-> players[i].health],
                    shots |-> [i \in 1..Len(players) |-> Len(shotLog[i])],
                    flying |-> bullets, fired |-> stepped.bs,
                    moved |-> moved, log |-> hits.log]

\* Game.update(delta_time, move_inputs, shoot_inputs), with the clock advanced
\* by the frame time since the previous call.
UpdateWith(dt, move_inputs, shoot_inputs) ==
    FrameAt(now + dt, dt, move_inputs, shoot_inputs)

\* Game.update(delta_time, move_inputs, shoot_inputs)
Update ==
    /\ frame < MaxFrames
    /\ \E dt \in FrameTimes, move_inputs \in MoveLists, shoot_inputs \in ShootLists :
           UpdateWith(dt, move_inputs, shoot_inputs)
    /\ frame' = frame + 1
    /\ UNCHANGED calls
    /\ UNCHANGED boundsVars
    /\ UNCHANGED strategyVars
    /\ UNCHANGED heapVars
    /\ UNCHANGED made

Next == Update

Spec == Init /\ [][Next]_vars

(***************************************************************************)
(* A player on its own: Player.shoot called at any times on a clock that   *)
(* never runs backwards.                                                   *)
(***************************************************************************)
ShootInit ==
    /\ IdleBounds
    /\ IdleStrategies
    /\ now = 0
    /\ frame = 0
    /\ \E stats \in {DEFAULT_STATS, SlowStats} : players = <<NewPlayer(1, stats, 0)>>
    /\ bullets = <<>>
    /\ last = NoFrame
    /\ shotLog = << <<>> >>
    /\ calls = 0
    /\ IdleHeap
    /\ made = Unbuilt

\* time.time() moves on by 25 or 50 milliseconds.
Tick ==
    /\ \E k \in 1..2 :
           /\ now + 25 * k <= 25 * MaxClock
           /\ now' = now + 25 * k
    /\ UNCHANGED <<players, bullets, frame, last, shotLog, calls>>
    /\ UNCHANGED boundsVars
    /\ UNCHANGED strategyVars
    /\ UNCHANGED heapVars
    /\ UNCHANGED made

\* History of a shoot call: the player before it, the arguments, the result.
ShootCall(p, direction, t, bullet) ==
    [call |-> "shoot", before |-> p, direction |-> direction, at |-> t, bullet |-> bullet]

\* bullet = player.shoot(direction); a returned bullet is kept in bullets.
PlayerShoot ==
    /\ \E direction \in {EAST, NORTH, Zero} :
         \E shot \in {Shoot(players[1], direction, now)} :
           /\ players' = <<shot.player>>
           /\ bullets' = IF IsNone(shot.bullet) THEN bullets
                         ELSE Append(bullets, Val(shot.bullet))
           /\ shotLog' = IF IsNone(shot.bullet) THEN shotLog
                         ELSE [shotLog EXCEPT ![1] = Append(@, now)]
           /\ last' = ShootCall(players[1], direction, now, shot.bullet)
    /\ UNCHANGED <<now, frame, calls>>
    /\ UNCHANGED boundsVars
    /\ UNCHANGED strategyVars
    /\ UNCHANGED heapVars
    /\ UNCHANGED made

ShootNext == Tick \/ PlayerShoot

SpecShoot == ShootInit /\ [][ShootNext]_vars

(***************************************************************************)
(* A player on its own: set_bounds, set_position and move called in any    *)
(* order, and the move followed by the negated move that Game.update makes *)
(* for a player that ran into another.                                     *)
(***************************************************************************)
\* Bounds handed to set_bounds: narrower than a player, exactly as wide as a
\* player, wider, the field, and bounds on the x axis alone.
BoundsInputs ==
    {NewBounds(BoundsArgs(Some(hi), Some(0), Some(hi), Some(0))) : hi \in {20, 30, 100}}
        \cup {FieldBounds, NewBounds(BoundsArgs(Some(100), Some(0), None, None))}

PositionInputs == {Vector(0, 0), Vector(50, 50), Vector(200, 10)}
DirectionInputs == {EAST, WEST, NORTH, SOUTH}

\* History of a call that moves the player: the position before it.
Moving(p, direction, dt) ==
    [NoFrame EXCEPT !.dt = dt, !.moves = <<direction>>, !.pre = <<p.position>>]

PlayerInit ==
    /\ IdleBounds
    /\ IdleStrategies
    /\ now = 0
    /\ frame = 0
    /\ players = <<NewPlayer(1, DEFAULT_STATS, 0)>>
    /\ bullets = <<>>
    /\ last = NoFrame
    /\ shotLog = << <<>> >>
    /\ calls = 0
    /\ IdleHeap
    /\ made = Unbuilt

\* player.set_bounds(b)
PlayerSetBounds ==
    /\ calls < MaxCalls
    /\ \E b \in BoundsInputs : players' = <<SetBounds(players[1], b)>>
    /\ last' = NoFrame
    /\ calls' = calls + 1
    /\ UNCHANGED <<bullets, now, frame, shotLog>>
    /\ UNCHANGED boundsVars
    /\ UNCHANGED strategyVars
    /\ UNCHANGED heapVars
    /\ UNCHANGED made

\* player.set_position(pos)
PlayerSetPosition ==
    /\ calls < MaxCalls
    /\ \E pos \in PositionInputs : players' = <<SetPosition(players[1], pos)>>
    /\ last' = NoFrame
    /\ calls' = calls + 1
    /\ UNCHANGED <<bullets, now, frame, shotLog>>
    /\ UNCHANGED boundsVars
    /\ UNCHANGED strategyVars
    /\ UNCHANGED heapVars
    /\ UNCHANGED made

\* player.move(direction, delta_time)
PlayerMove ==
    /\ calls < MaxCalls
    /\ \E direction \in DirectionInputs, dt \in {50, 100} :
           /\ players' = <<Move(players[1], direction, dt)>>
           /\ last' = Moving(players[1], direction, dt)
    /\ calls' = calls + 1
    /\ UNCHANGED <<bullets, now, frame, shotLog>>
    /\ UNCHANGED boundsVars
    /\ UNCHANGED strategyVars
    /\ UNCHANGED heapVars
    /\ UNCHANGED made

\* Game.update, lines 78 and 86, for a player that finds itself overlapping
\* another after its move: the move, then the negated move.
PlayerBlockedMove ==
    /\ calls < MaxCalls
    /\ \E direction \in DirectionInputs, dt \in {50, 100} :
           /\ players' = <<Blocked(Move(players[1], direction, dt), direction, dt)>>
           /\ last' = Moving(players[1], direction, dt)
    /\ calls' = calls + 1
    /\ UNCHANGED <<bullets, now, frame, shotLog>>
    /\ UNCHANGED boundsVars
    /\ UNCHANGED strategyVars
    /\ UNCHANGED heapVars
    /\ UNCHANGED made

PlayerNext == PlayerSetBounds \/ PlayerSetPosition \/ PlayerMove \/ PlayerBlockedMove

SpecPlayer == PlayerInit /\ [][PlayerNext]_vars

(***************************************************************************)
(* A strategy on its own: snapshots are pushed with update_info and        *)
(* get_move is called, in any order.                                       *)
(***************************************************************************)
StrategyKinds == {"idle", "bounce", "semismart", "smart"}

\* The player the strategy plays for, at x = 400 and the heights around the
\* two thresholds, and the other players of a snapshot.
Self(y) == Entry("p1", PlayerInformation(PLAYER_RADIUS, Vector(400, y), FieldBounds))
Other(id, x, y) == Entry(id, PlayerInformation(PLAYER_RADIUS, Vector(x, y), FieldBounds))
SelfHeights == {15, 16, 400, 784, 785}
Opponents == {Other("p2", 300, 300), Other("p2", 400, 400), Other("p2", 500, 500)}

PlayerDicts ==
    {<<>>, <<Other("p2", 300, 300)>>}
        \cup {<<Self(y)>> : y \in SelfHeights}
        \cup {<<Self(400), o>> : o \in Opponents}
        \cup {<<o, Self(400)>> : o \in Opponents}
        \cup {<<Self(785), Other("p2", 300, 300)>>, <<Self(15), Other("p2", 400, 400)>>,
              <<Other("p3", 100, 100), Self(400), Other("p2", 500, 500)>>}

\* The dicts that snapshots with bullets are built on.
DuelDicts ==
    {<<Self(400)>>, <<Self(400), Other("p2", 300, 300)>>, <<Other("p2", 500, 500), Self(400)>>}

BulletAt(x, y, dir) == BulletInformation(BULLET_RADIUS, Vector(x, y), dir)

\* Bullets around a player at (400, 400): closing in along its row from 100
\* and from 50 away, closing in along its column, receding, passing by
\* overhead, at rest, and closing in from far off its row and column.
BulletInputs ==
    {BulletAt(300, 400, EAST), BulletAt(500, 400, WEST), BulletAt(450, 400, WEST),
     BulletAt(400, 300, SOUTH), BulletAt(300, 400, WEST), BulletAt(400, 200, EAST),
     BulletAt(350, 400, Zero), BulletAt(100, 700, EAST), BulletAt(340, 480, EAST)}

BulletPairs ==
    {<<a, b>> : a \in {BulletAt(300, 400, EAST), BulletAt(500, 400, WEST), BulletAt(300, 400, WEST)},
                b \in {BulletAt(300, 400, EAST), BulletAt(500, 400, WEST),
                       BulletAt(450, 400, WEST), BulletAt(400, 200, EAST)}}

BulletLists == {<<b>> : b \in BulletInputs} \cup BulletPairs

SnapshotInputs ==
    {GameInformation(ps, <<>>) : ps \in PlayerDicts}
        \cup {GameInformation(ps, bs) : ps \in DuelDicts, bs \in BulletLists}

StrategyInit ==
    /\ IdleGame
    /\ IdleBounds
    /\ strategy \in {NewStrategy(kind, "p1") : kind \in StrategyKinds}
    /\ intent = NoIntent
    /\ IdleHeap
    /\ made = Unbuilt

\* strategy.update_info(info)
StrategyUpdateInfo ==
    /\ \E info \in SnapshotInputs : strategy' = UpdateInfo(strategy, info)
    /\ intent' = NoIntent
    /\ UNCHANGED gameVars
    /\ UNCHANGED boundsVars
    /\ UNCHANGED heapVars
    /\ UNCHANGED made

\* move, aim = strategy.get_move()
StrategyGetMove ==
    /\ \E r \in {GetMove(strategy)} :
           /\ strategy' = r.strategy
           /\ intent' = [given |-> strategy, result |-> r.result,
                         depth |-> IF "depth" \in DOMAIN r THEN r.depth ELSE 0]
    /\ UNCHANGED gameVars
    /\ UNCHANGED boundsVars
    /\ UNCHANGED heapVars
    /\ UNCHANGED made

\* bullet = strategy._get_closest_dangerous_bullet(), on a SmartStrategy; the
\* lookup of the own player, made when there are bullets, raises KeyError
\* when the snapshot does not hold it.
StrategyClosestBullet ==
    /\ strategy.kind = "smart"
    /\ intent' = [given |-> strategy,
                  chosen |-> IF /\ Len(strategy.info.bullets) > 0
                                /\ ~HasPlayer(strategy.info, strategy.player_id)
                             THEN KeyError
                             ELSE GetClosestDangerousBullet(strategy)]
    /\ UNCHANGED strategy
    /\ UNCHANGED gameVars
    /\ UNCHANGED boundsVars
    /\ UNCHANGED heapVars
    /\ UNCHANGED made

StrategyNext == StrategyUpdateInfo \/ StrategyGetMove \/ StrategyClosestBullet

SpecStrategy == StrategyInit /\ [][StrategyNext]_vars

(***************************************************************************)
(* A player driven by a bounce strategy, alone in the field: each frame a  *)
(* snapshot of the player is pushed to the strategy, get_move is asked and *)
(* the player moves by the move returned.  The aim returned is not acted   *)
(* on and the clock, which only shoot reads, is left alone.                *)
(***************************************************************************)
PatrolTimes == {25, 50, 100}

PatrolInit ==
    /\ IdleBounds
    /\ now = 0
    /\ frame = 0
    /\ \E x \in {0, 400} : players = <<MakePlayer(1, DEFAULT_STATS, Vector(x, 0), 0)>>
    /\ bullets = <<>>
    /\ last = NoFrame
    /\ shotLog = << <<>> >>
    /\ calls = 0
    /\ strategy = NewStrategy("bounce", "p1")
    /\ intent = NoIntent
    /\ IdleHeap
    /\ made = Unbuilt

\* One frame: snapshot, update_info, get_move, move.
PatrolFrame ==
    /\ \E dt \in PatrolTimes :
         \E info \in {GameInformation(<<Entry("p1", PlayerGetInfo(players[1]))>>, <<>>)} :
         \E r \in {GetMove(UpdateInfo(strategy, info))} :
           /\ strategy' = r.strategy
           /\ intent' = [given |-> UpdateInfo(strategy, info), result |-> r.result]
           /\ players' = <<Move(players[1], r.result.move, dt)>>
    /\ UNCHANGED <<bullets, now, frame, last, shotLog, calls>>
    /\ UNCHANGED boundsVars
    /\ UNCHANGED heapVars
    /\ UNCHANGED made

PatrolNext == PatrolFrame

\* Frames keep coming: the loop that drives the game calls update every tick.
SpecPatrol == PatrolInit /\ [][PatrolNext]_vars /\ WF_vars(PatrolFrame)

(***************************************************************************)
(* Claims about the game, checked under Spec (C5: under SpecPlayer).        *)
(***************************************************************************)
PlayerIds == 1..Len(players)
Range(f) == {f[k] : k \in DOMAIN f}
Least(S) == CHOOSE m \in S : \A n \in S : m <= n

\* The displacement player i asked for in the last frame.
Asked(i) == Displacement(Normalize(last.moves[i]), players[i].speed, last.dt)

\* A coordinate brought into [lo, hi].
Clip(c, lo, hi) == IF c < lo THEN lo ELSE IF c > hi THEN hi ELSE c

\* A centre brought into the field, a player's radius away from each edge.
ClipToField(v) ==
    Vector(Clip(v.x, PLAYER_RADIUS, WIDTH - PLAYER_RADIUS),
           Clip(v.y, PLAYER_RADIUS, HEIGHT - PLAYER_RADIUS))

\* The world snapshot of a frame: the information of every player and bullet.
Snapshot(ps, bs) ==
    [players |-> [i \in 1..Len(ps) |-> PlayerGetInfo(ps[i])],
     bullets |-> [j \in 1..Len(bs) |-> BulletGetInfo(bs[j])]]

\* C1: in every frame of Game.update one snapshot is built from the players
\* and bullets as they are before anything moves, and every player's strategy
\* holds that same snapshot in that frame.
C1_SharedSnapshot ==
    [][frame' = frame + 1 =>
           \A i \in 1..Len(players') : players'[i].info = Snapshot(players, bullets)]_vars

\* C2: after every completed frame the player list holds no player for whom
\* is_dead() is true.
C2_NoDeadPlayers ==
    frame > 0 => \A i \in PlayerIds : ~IsDead(players[i])

\* Hit registration of the last frame: the players a bullet (as advanced in
\* that frame) overlaps, and the hit calls logged for bullet j.
Overlapped(b) ==
    {i \in PlayerIds :
        Within(players[i].position, b.position, PLAYER_RADIUS + BULLET_RADIUS)}
HitsOf(j) == {k \in DOMAIN last.log : last.log[k][1] = j}

RECURSIVE HealthAfter(_, _, _)
\* The health of player i after the logged hits from entry k on, each hit
\* leaving max(0, health - damage).
HealthAfter(h, i, k) ==
    IF k > Len(last.log) THEN h
    ELSE IF last.log[k][2] # i THEN HealthAfter(h, i, k + 1)
    ELSE LET d == last.moved[last.log[k][1]].damage
         IN  HealthAfter(IF h - d > 0 THEN h - d ELSE 0, i, k + 1)

Roomy(lo, hi) == Val(lo) + PLAYER_RADIUS <= Val(hi) - PLAYER_RADIUS

\* C5 as stated: a player whose bounds have min and max set on both axes has
\* its centre at least RADIUS inside its bounds on each axis, after any
\* sequence of set_bounds, set_position and move calls (the negated move of a
\* peer collision included).
C5_Original ==
    \A i \in PlayerIds :
        LET p == players[i]
        IN  (BothSet(p.bounds.x_min, p.bounds.x_max) /\ BothSet(p.bounds.y_min, p.bounds.y_max)) =>
                /\ InPadded(p.position.x, p.bounds.x_min, p.bounds.x_max, PLAYER_RADIUS)
                /\ InPadded(p.position.y, p.bounds.y_min, p.bounds.y_max, PLAYER_RADIUS)

\* C5 amended: a player whose bounds have min and max set on both axes has
\* its centre at least RADIUS inside its bounds on every axis on which
\* max - min >= 2 * RADIUS, after any sequence of set_bounds, set_position
\* and move calls (the negated move of a peer collision included); on a
\* narrower axis the coordinate is max - RADIUS.
C5_InsideBounds ==
    \A i \in PlayerIds :
        LET p == players[i]
        IN  (BothSet(p.bounds.x_min, p.bounds.x_max) /\ BothSet(p.bounds.y_min, p.bounds.y_max)) =>
                /\ IF Roomy(p.bounds.x_min, p.bounds.x_max)
                   THEN InPadded(p.position.x, p.bounds.x_min, p.bounds.x_max, PLAYER_RADIUS)
                   ELSE p.position.x = Val(p.bounds.x_max) - PLAYER_RADIUS
                /\ IF Roomy(p.bounds.y_min, p.bounds.y_max)
                   THEN InPadded(p.position.y, p.bounds.y_min, p.bounds.y_max, PLAYER_RADIUS)
                   ELSE p.position.y = Val(p.bounds.y_max) - PLAYER_RADIUS

\* C5 witness: a player with roomy bounds on both axes, away from the left
\* edge, asked to move across it and ended on it, RADIUS away from the edge.
C5_Witness ==
    /\ calls > 0
    /\ last.moves # <<>>
    /\ LET p == players[1]
       IN  /\ BothSet(p.bounds.x_min, p.bounds.x_max) /\ BothSet(p.bounds.y_min, p.bounds.y_max)
           /\ Roomy(p.bounds.x_min, p.bounds.x_max) /\ Roomy(p.bounds.y_min, p.bounds.y_max)
           /\ last.pre[1].x > Val(p.bounds.x_min) + PLAYER_RADIUS
           /\ last.pre[1].x + Asked(1).x < Val(p.bounds.x_min) + PLAYER_RADIUS
           /\ p.position.x = Val(p.bounds.x_min) + PLAYER_RADIUS

\* The position the move of player i led to in the last frame, and whether
\* the player there overlapped another player: those before it in the list
\* had already moved, those after it had not.
MovedTo(i) == ClipToField(VAdd(last.pre[i], Asked(i)))
OverlappedAt(i) ==
    \E j \in PlayerIds :
        /\ j # i
        /\ Within(MovedTo(i),
                  IF j < i THEN players[j].position ELSE last.pre[j],
                  PLAYER_RADIUS + PLAYER_RADIUS)

C10_HealthFloored ==
    \A i \in PlayerIds :
        /\ 0 <= players[i].health
        /\ players[i].health <= players[i].max_health
        /\ IsDead(players[i]) <=> players[i].health = 0
        /\ frame > 0 =>
               /\ players[i].health <= last.health[i]
               /\ players[i].health = HealthAfter(last.health[i], i, 1)

\* C10 witness: a player that had lost part of its health was hit for more
\* than it had left, and is at 0.
C10_Witness ==
    /\ frame > 0
    /\ \E k \in DOMAIN last.log :
           LET i == last.log[k][2]
               d == last.moved[last.log[k][1]].damage
           IN  /\ 0 < last.health[i]
               /\ last.health[i] < players[i].max_health
               /\ d > last.health[i]
               /\ players[i].health = 0

(***************************************************************************)
(* Claims about Player.shoot, checked under SpecShoot.                     *)
(***************************************************************************)
\* C4: on a clock that never runs backwards, two calls of shoot that return a
\* bullet are at least 1/firerate seconds apart, and the first bullet comes
\* no earlier than 1/firerate seconds after the player was made (at time 0).
C4_ShotsSpaced ==
    \A i \in DOMAIN shotLog :
        \A k \in DOMAIN shotLog[i] :
            LET before == IF k = 1 THEN 0 ELSE shotLog[i][k - 1]
            IN  (shotLog[i][k] - before) * players[i].firerate >= 1000

\* C4 witness: three bullets, the second exactly 1/firerate after the first
\* and the third later than 1/firerate after the second.
C4_Witness ==
    /\ Len(shotLog[1]) = 3
    /\ Len(bullets) = 3
    /\ (shotLog[1][2] - shotLog[1][1]) * players[1].firerate = 1000
    /\ (shotLog[1][3] - shotLog[1][2]) * players[1].firerate > 1000

\* C11: a shoot call made while the cooldown of 1/firerate has not elapsed, or
\* with the zero direction, returns no bullet and leaves the player as it was
\* (last_shot_time included); any other call returns a bullet with the
\* direction given and the player's damage, and changes the player only by
\* setting last_shot_time to the time of the call.
C11_RejectedShotIsNoOp ==
    "call" \in DOMAIN last =>
        LET p0 == last.before
            cooling == (last.at - p0.last_shot_time) * p0.firerate < 1000
        IN  IF cooling \/ last.direction = Zero
            THEN /\ IsNone(last.bullet)
                 /\ players[1] = p0
            ELSE /\ ~IsNone(last.bullet)
                 /\ players[1] = [p0 EXCEPT !.last_shot_time = last.at]
                 /\ Val(last.bullet) \in Range(bullets)
                 /\ Val(last.bullet).direction = last.direction
                 /\ Val(last.bullet).damage = p0.damage

\* C11 witness: after an earlier shot, a call with a non-zero direction made
\* later but within the cooldown returned nothing and left last_shot_time.
C11_Witness ==
    /\ "call" \in DOMAIN last
    /\ last.direction # Zero
    /\ last.before.last_shot_time > 0
    /\ last.at > last.before.last_shot_time
    /\ IsNone(last.bullet)
    /\ players[1].last_shot_time = last.before.last_shot_time
    /\ Len(bullets) = 1

(***************************************************************************)
(* Claims about the strategies, checked under SpecStrategy.                *)
(***************************************************************************)
\* A get_move call has been made on a strategy of the kind and has returned.
Moved(kind) ==
    /\ strategy.kind = kind
    /\ "result" \in DOMAIN intent
    /\ ~IsError(intent.result)

\* The own position in the snapshot the last call was made on.
OwnPosition == PlayerOf(intent.given.info, intent.given.player_id).position

Intent(move, aim) == [move |-> move, aim |-> aim]

Closing(pos, b) ==
    (pos.x - b.position.x - b.direction.x) * (pos.x - b.position.x - b.direction.x)
        + (pos.y - b.position.y - b.direction.y) * (pos.y - b.position.y - b.direction.y)
      < (pos.x - b.position.x) * (pos.x - b.position.x)
        + (pos.y - b.position.y) * (pos.y - b.position.y)

\* The indices of the bullets of the last call's snapshot that close in on the
\* own player.
ClosingIn ==
    {k \in DOMAIN intent.given.info.bullets :
        Closing(OwnPosition, intent.given.info.bullets[k])}

\* C14: the smart strategy's get_move, on a snapshot that holds the own player
\* and no bullet closing in on it, returns (zero, zero) and raises nothing,
\* also when the own player is the only player of the snapshot.
C14_SmartIdleWithoutDanger ==
    ( /\ strategy.kind = "smart"
      /\ "result" \in DOMAIN intent
      /\ HasPlayer(intent.given.info, intent.given.player_id)
      /\ ClosingIn = {} )
        => intent.result = Intent(Zero, Zero)

\* C15: the bullet chosen by _get_closest_dangerous_bullet is none exactly
\* when no bullet of the snapshot is closing in; otherwise it is the bullet at
\* the least index among the closing bullets of minimum distance to the player.
C15_ClosestDangerousBullet ==
    ( /\ strategy.kind = "smart"
      /\ "chosen" \in DOMAIN intent
      /\ HasPlayer(intent.given.info, intent.given.player_id) )
        => LET bs == intent.given.info.bullets
               nearest == {k \in ClosingIn :
                              \A j \in ClosingIn :
                                  Dist2(OwnPosition, bs[k].position)
                                      <= Dist2(OwnPosition, bs[j].position)}
           IN  IF ClosingIn = {} THEN intent.chosen = None
               ELSE intent.chosen = Some(bs[Least(nearest)])

\* C15 witness: of two different closing bullets at the same distance the
\* first of the snapshot was chosen; the snapshot's first bullet is another one.
C15_Witness ==
    /\ strategy.kind = "smart"
    /\ "chosen" \in DOMAIN intent
    /\ HasPlayer(intent.given.info, intent.given.player_id)
    /\ LET bs == intent.given.info.bullets
       IN  /\ Len(bs) = 2
           /\ ClosingIn = {1, 2}
           /\ bs[1] # bs[2]
           /\ Dist2(OwnPosition, bs[1].position) = Dist2(OwnPosition, bs[2].position)
           /\ intent.chosen = Some(bs[1])

\* C16: the smart strategy's get_move with a dangerous bullet: when the x of
\* the projection (bullet.position + bullet.direction * distance) lies within
\* margin = player.radius + bullet.radius + 100 of the player's x, the move
\* has a y component of magnitude 1; when its y lies within margin of the
\* player's y, the move has an x component of magnitude 1; the aim is zero.
C16_DodgeComponents ==
    (Moved("smart") /\ ClosingIn # {}) =>
        LET player == PlayerOf(intent.given.info, intent.given.player_id)
            bullet == Val(GetClosestDangerousBullet(intent.given))
            d2 == Dist2(player.position, bullet.position)
            margin == player.radius + bullet.radius + 100
            in_x == /\ ProjGe(bullet.position.x, bullet.direction.x, d2, player.position.x - margin)
                    /\ ProjLe(bullet.position.x, bullet.direction.x, d2, player.position.x + margin)
            in_y == /\ ProjGe(bullet.position.y, bullet.direction.y, d2, player.position.y - margin)
                    /\ ProjLe(bullet.position.y, bullet.direction.y, d2, player.position.y + margin)
        IN  /\ in_x => Abs(intent.result.move.y) = 1
            /\ in_y => Abs(intent.result.move.x) = 1
            /\ intent.result.aim = Zero

\* The indices of the entries of the last call's snapshot that are not the
\* own player.
Others ==
    {k \in DOMAIN intent.given.info.players :
        intent.given.info.players[k].id # intent.given.player_id}

\* C17: the semi-smart strategy's get_move, on a snapshot holding the own
\* player and another, returns a move of (0,1), (0,-1) or zero as the y of the
\* first other player of the snapshot is greater than, less than or equal to
\* the own y, and an aim of (1,0), (-1,0) or zero as its x is greater than,
\* less than or equal to the own x.
C17_SemiSmartIntent ==
    ( /\ strategy.kind = "semismart"
      /\ "result" \in DOMAIN intent
      /\ HasPlayer(intent.given.info, intent.given.player_id)
      /\ Others # {} )
        => LET t == intent.given.info.players[Least(Others)].info.position
               me == OwnPosition
           IN  /\ ~IsError(intent.result)
               /\ intent.result.move = Vector(0, Sign(t.y - me.y))
               /\ intent.result.aim = Vector(Sign(t.x - me.x), 0)
               /\ strategy = intent.given

\* C17 witness: the own player is the first key of a snapshot of two, the
\* other player is above and to the left, and the intent is (up, west).
C17_Witness ==
    /\ Moved("semismart")
    /\ Len(intent.given.info.players) = 2
    /\ intent.given.info.players[1].id = intent.given.player_id
    /\ intent.given.info.players[2].info.position.y < OwnPosition.y
    /\ intent.given.info.players[2].info.position.x < OwnPosition.x
    /\ intent.result = Intent(Vector(0, -1), Vector(-1, 0))

\* C18: the idle strategy's get_move returns (zero, zero) on every snapshot
\* (empty, the own player alone, several players) and changes no state.
C18_IdleIntent ==
    (strategy.kind = "idle" /\ "result" \in DOMAIN intent) =>
        /\ intent.result = Intent(Zero, Zero)
        /\ strategy = intent.given

\* C18 witness: the idle strategy was asked on a snapshot of three players
\* with the own player among them.
C18_Witness ==
    /\ Moved("idle")
    /\ Len(intent.given.info.players) = 3
    /\ HasPlayer(intent.given.info, intent.given.player_id)
    /\ intent.result = Intent(Zero, Zero)

(***************************************************************************)
(* Claims about the patrolling player, checked under SpecPatrol.           *)
(***************************************************************************)
\* The last frame's call switched the strategy at a threshold.
FlippedUp ==
    /\ "given" \in DOMAIN intent
    /\ intent.given.going_down /\ ~strategy.going_down
    /\ OwnPosition.y >= 785
FlippedDown ==
    /\ "given" \in DOMAIN intent
    /\ ~intent.given.going_down /\ strategy.going_down
    /\ OwnPosition.y <= 15

MaxDuelFrames == 10

\* Both duellists: ten health points, ten points of damage per bullet.
DuelStats == [damage |-> 10, speed |-> 400, max_health |-> 10, firerate |-> 10]

\* Where the shooter stands, and how far to its east the target stands.
DuelOrigin == Vector(100, 400)
DuelDistances == {60, 100, 140, 180, 220, 260}
DuelTimes == {25, 50, 100}

DuelInit ==
    /\ IdleBounds
    /\ IdleStrategies
    /\ now = 0
    /\ frame = 0
    /\ \E d \in DuelDistances :
           players = << MakePlayer(1, DuelStats, DuelOrigin, 0),
                        MakePlayer(2, DuelStats, VAdd(DuelOrigin, Vector(d, 0)), 0) >>
    /\ made = [num_players |-> 2, stats |-> <<DuelStats, DuelStats>>]
    /\ bullets = <<>>
    /\ last = NoFrame
    /\ shotLog = <<(<<>>), (<<>>)>>
    /\ calls = 0
    /\ IdleHeap

\* One Game.update of the duel: nobody moves; the shooter aims east until it
\* has fired its bullet and gives no aim afterwards; the target never aims.
\* Every frame of a duel has the length of its first frame.
DuelFrame ==
    /\ frame < MaxDuelFrames
    /\ \E dt \in DuelTimes :
           /\ frame = 0 \/ dt = last.dt
           /\ UpdateWith(dt, <<>>, IF shotLog[1] = <<>> THEN <<Some(EAST)>> ELSE <<>>)
    /\ frame' = frame + 1
    /\ UNCHANGED calls
    /\ UNCHANGED boundsVars
    /\ UNCHANGED strategyVars
    /\ UNCHANGED heapVars
    /\ UNCHANGED made

DuelNext == DuelFrame

SpecDuel == DuelInit /\ [][DuelNext]_vars

\* Frames in which the shooter's bullet has been advanced: the frame that
\* creates the bullet advances it too (Game.update, lines 89-94).
Advanced ==
    IF shotLog[1] = <<>> THEN 0 ELSE (now - shotLog[1][1]) \div last.dt + 1

\* ceil(d / bullet_speed / dt), with d in pixels, the bullet speed in pixels
\* per second and dt in milliseconds.
FramesToReach(d, dt) ==
    (d * 1000 + DEFAULT_BULLET_SPEED * dt - 1) \div (DEFAULT_BULLET_SPEED * dt)

\* The target as it stands among the players, if it is still one of them.
Targets == { i \in PlayerIds : players[i].player_id = 2 }

\* The distance between the duellists at the start: neither ever moves.
DuelDistance == last.pre[2].x - last.pre[1].x

\* C19: in a duel with frames of any one positive length, once the bullet has
\* been advanced for ceil(d / bullet_speed / dt) frames the target's health is
\* 0, and the target is no longer among the players when that frame ends.
C19_DuelKills ==
    (frame > 0 /\ Advanced >= FramesToReach(DuelDistance, last.dt)) =>
        /\ \A i \in Targets : players[i].health = 0
        /\ Targets = {}

\* ---------------------------------------------------------------------------
\* Frames with fewer inputs than players
\* ---------------------------------------------------------------------------

\* The players of the last frame that the caller supplied no move input for,
\* and those it supplied no shoot input for.
Unmoved == { i \in DOMAIN last.pre : i > last.supplied[1] }
Unasked == { i \in DOMAIN last.shots : i > last.supplied[2] }

C29_BounceNestsOnce ==
    Moved("bounce") =>
        LET g == intent.given
            flips == IF g.going_down THEN OwnPosition.y >= 785 ELSE OwnPosition.y <= 15
        IN  /\ intent.depth <= 1
            /\ intent.depth = 1 <=> flips

\* C29 witness: a call made while going down at y = 785 has returned through
\* one nested self-call, going up.
C29_Witness ==
    /\ Moved("bounce")
    /\ intent.given.going_down
    /\ OwnPosition.y = 785
    /\ intent.depth = 1
    /\ ~strategy.going_down

\* ---------------------------------------------------------------------------
\* Construction of a Game, checked under Spec
\* ---------------------------------------------------------------------------

BulletOrigins == {Vector(400, 400), Vector(21, 790)}
BulletDirections == {EAST, WEST, NORTH, SOUTH, Vector(3, 0), Zero}
BulletSpeeds == {DEFAULT_BULLET_SPEED, 400}
BulletTimes == {0, 25, 50, 100}

\* History of a bullet: the bullet as constructed and the sum of the frame
\* times of its move calls.
Flight(b, total) == [made |-> b, total |-> total]

BulletInit ==
    /\ IdleBounds
    /\ IdleStrategies
    /\ IdleHeap
    /\ made = Unbuilt
    /\ players = <<>>
    /\ \E origin \in BulletOrigins, direction \in BulletDirections,
          speed \in BulletSpeeds :
         \E b \in {NewBullet(origin, direction, 10, speed)} :
           /\ bullets = <<b>>
           /\ last = Flight(b, 0)
    /\ now = 0
    /\ frame = 0
    /\ shotLog = <<>>
    /\ calls = 0

\* bullet.move(delta_time)
BulletMoveCall ==
    /\ calls < MaxCalls
    /\ \E dt \in BulletTimes :
           /\ bullets' = <<BulletMove(bullets[1], dt)>>
           /\ last' = Flight(last.made, last.total + dt)
    /\ calls' = calls + 1
    /\ UNCHANGED <<players, now, frame, shotLog>>
    /\ UNCHANGED boundsVars
    /\ UNCHANGED strategyVars
    /\ UNCHANGED heapVars
    /\ UNCHANGED made

BulletNext == BulletMoveCall

SpecBullet == BulletInit /\ [][BulletNext]_vars

\* C23: after any sequence of move calls a bullet has the direction, damage
\* and speed it was constructed with, and its position is the origin displaced
\* by speed times the total time of the calls along that direction.
C23_BulletFliesStraight ==
    LET b == bullets[1]
        b0 == last.made
    IN  /\ b.direction = b0.direction
        /\ b.damage = b0.damage
        /\ b.speed = b0.speed
        /\ b.position = VAdd(b0.position, Displacement(b0.direction, b0.speed, last.total))

\* C23 witness: a bullet made at (400, 400) heading east at the default speed
\* has been moved three times, for 175 ms in all, and is 140 px east of its
\* origin.
C23_Witness ==
    /\ calls = 3
    /\ last.total = 175
    /\ last.made = NewBullet(Vector(400, 400), EAST, 10, DEFAULT_BULLET_SPEED)
    /\ bullets[1].position = Vector(540, 400)

\* ---------------------------------------------------------------------------
\* The order of the steps of a frame, checked under Spec
\* ---------------------------------------------------------------------------

RECURSIVE NewShots(_)
\* The bullets fired in the last frame by the players from i on, in list
\* order, each as Player.shoot makes it from the position its shooter has
\* after its move.
NewShots(i) ==
    IF i > Len(last.shots) THEN <<>>
    ELSE IF Len(shotLog[i]) > last.shots[i]
         THEN << NewBullet(VAdd(players[i].position,
                                VScale(Val(last.shoots[i]),
                                       PLAYER_RADIUS + BULLET_RADIUS + 1)),
                           Val(last.shoots[i]), players[i].damage,
                           DEFAULT_BULLET_SPEED) >> \o NewShots(i + 1)
         ELSE NewShots(i + 1)

\* C25: in every frame the players are moved and shoot, in list order, before
\* any bullet is advanced; every bullet, those fired in the frame included,
\* is advanced once before any hit is registered; hits are judged on the
\* advanced positions; and the bullets that hit or left the field are removed
\* after that.
C25_FrameOrder ==
    frame > 0 =>
        /\ last.fired = last.flying \o NewShots(1)
        /\ last.moved = [j \in DOMAIN last.fired |-> BulletMove(last.fired[j], last.dt)]
        /\ \A k \in DOMAIN last.log :
               /\ ~OutOfBounds(last.moved[last.log[k][1]])
               /\ last.log[k][2] \in Overlapped(last.moved[last.log[k][1]])
        /\ \A j \in DOMAIN last.moved :
               (Overlapped(last.moved[j]) # {} \/ OutOfBounds(last.moved[j])) =>
                   last.moved[j] \notin Range(bullets)

\* C25 witness: a player moved and fired in the same frame, and its bullet,
\* spawned from the position after the move and advanced, hit another player
\* in that frame.
C25_Witness ==
    /\ frame > 0
    /\ players[1].position # last.pre[1]
    /\ Len(shotLog[1]) > last.shots[1]
    /\ Len(last.fired) = Len(last.flying) + 1
    /\ \E k \in DOMAIN last.log : last.log[k][1] = Len(last.fired)

\* ---------------------------------------------------------------------------
\* The bullets left after a frame, checked under Spec
\* ---------------------------------------------------------------------------

\* An advanced bullet that _register_hits has no reason to mark: it is inside
\* the field and overlaps no player.
Survives(b) == ~OutOfBounds(b) /\ Overlapped(b) = {}

\* C27: after every frame each bullet of Game.bullets is inside the field and
\* farther than the two radii from every player, and Game.bullets is the list
\* of advanced bullets without the marked ones, in the same order: no marked
\* bullet is left and no unmarked bullet is removed.
C27_LiveBulletsAreClear ==
    /\ \A b \in Range(bullets) : Survives(b)
    /\ frame > 0 => bullets = SelectSeq(last.moved, Survives)

\* C27 witness: of two advanced bullets the second hit a player and was
\* removed while the first, in free flight, stayed.
C27_Witness ==
    /\ frame > 0
    /\ Len(last.moved) = 2
    /\ bullets = <<last.moved[1]>>
    /\ ~OutOfBounds(last.moved[2])
    /\ Overlapped(last.moved[2]) # {}
    /\ last.log = << <<2, Least(Overlapped(last.moved[2]))>> >>

(***************************************************************************)
(* Bullets in flight: a shooter and a bystander who never move; the        *)
(* shooter is given an aim in the first frames and none afterwards, and    *)
(* the frames go on.  Every frame has a positive length.                   *)
(***************************************************************************)
MaxFlightFrames == 3

\* Shooter and bystander: the bystander at the east edge with the shooter 45
\* and 46 px to its west, and a pair in mid-field.
FlightPlacements ==
    { <<Vector(740, 400), Vector(785, 400)>>,
      <<Vector(739, 400), Vector(785, 400)>>,
      <<Vector(300, 400), Vector(400, 400)>> }
FlightAims == {None, Some(EAST), Some(WEST), Some(Zero)}
FlightTimes == {50, 100}

FlightInit ==
    /\ IdleBounds
    /\ IdleStrategies
    /\ IdleHeap
    /\ now = 0
    /\ frame = 0
    /\ \E pl \in FlightPlacements :
           players = [i \in 1..2 |-> MakePlayer(i, DEFAULT_STATS, pl[i], 0)]
    /\ made = [num_players |-> 2, stats |-> <<>>]
    /\ bullets = <<>>
    /\ last = NoFrame
    /\ shotLog = <<(<<>>), (<<>>)>>
    /\ calls = 0

\* Game.update in one of the first frames: no move input, an aim or none for
\* the shooter.
FlightFrame ==
    /\ frame < MaxFlightFrames
    /\ \E dt \in FlightTimes, aim \in FlightAims : UpdateWith(dt, <<>>, <<aim>>)
    /\ frame' = frame + 1
    /\ UNCHANGED calls
    /\ UNCHANGED boundsVars
    /\ UNCHANGED strategyVars
    /\ UNCHANGED heapVars
    /\ UNCHANGED made

\* Game.update in a later frame: no inputs at all.  No aim is given, so
\* Player.shoot is not called and time.time() is not read: the clock and the
\* frame counter are left where they stopped.
CoastFrame ==
    /\ frame = MaxFlightFrames
    /\ \E dt \in FlightTimes : FrameAt(now, dt, <<>>, <<>>)
    /\ UNCHANGED <<frame, calls>>
    /\ UNCHANGED boundsVars
    /\ UNCHANGED strategyVars
    /\ UNCHANGED heapVars
    /\ UNCHANGED made

FlightNext == FlightFrame \/ CoastFrame

\* The game loop keeps calling update: a frame that can run does run.
SpecFlight ==
    FlightInit /\ [][FlightNext]_vars /\ WF_vars(FlightFrame) /\ WF_vars(CoastFrame)

\* A bullet outside the rectangle [0, WIDTH] x [0, HEIGHT]; the edge is inside.
Outside(b) ==
    ~(0 <= b.position.x /\ b.position.x <= WIDTH /\ 0 <= b.position.y /\ b.position.y <= HEIGHT)

\* C26: a bullet that is outside the field when hits are registered is
\* removed in that frame and hits nobody, and a player overlapped by such
\* bullets only keeps its health; a bullet exactly on the edge is inside: it
\* hits the player it overlaps, and stays in flight when it overlaps nobody.
C26_OutsideBulletsAreHarmless ==
    last.moved # <<>> =>
        /\ \A j \in DOMAIN last.moved :
               IF Outside(last.moved[j])
               THEN /\ HitsOf(j) = {}
                    /\ last.moved[j] \notin Range(bullets)
               ELSE IF Overlapped(last.moved[j]) # {}
                    THEN HitsOf(j) # {}
                    ELSE last.moved[j] \in Range(bullets)
        /\ \A i \in PlayerIds :
               (\A j \in DOMAIN last.moved :
                    i \in Overlapped(last.moved[j]) => Outside(last.moved[j]))
                   => players[i].health = last.health[i]

\* C26 witness: a bullet 1 px beyond the east edge, within the two radii of
\* the bystander standing at the edge, was removed and the bystander kept
\* its full health.
C26_Witness ==
    /\ last.moved # <<>>
    /\ \E j \in DOMAIN last.moved :
           /\ last.moved[j].position = Vector(WIDTH + 1, 400)
           /\ 2 \in Overlapped(last.moved[j])
           /\ last.moved[j] \notin Range(bullets)
    /\ players[2].health = players[2].max_health

\* C28: every bullet in flight has a non-zero direction, and once no more
\* aims are given the bullets in flight run out: from some frame on
\* Game.bullets is empty for good.
C28_BulletsRunOut ==
    /\ [](\A b \in Range(bullets) : b.direction # Zero)
    /\ <>[](bullets = <<>>)

\* C28 witness: in a frame without inputs the last bullets in flight, fired
\* earlier, left the field or hit, and none is left.
C28_Witness ==
    /\ frame = MaxFlightFrames
    /\ last.supplied = <<0, 0>>
    /\ Len(last.flying) > 0
    /\ last.fired = last.flying
    /\ bullets = <<>>

(***************************************************************************)
(* Objects in memory.  A Vector or Bounds object is a cell of heap, named  *)
(* by its address; a Player, a Bullet, a PlayerInformation and a           *)
(* BulletInformation hold the addresses of their position, bounds and      *)
(* direction.  An assignment to an attribute changes an address, an        *)
(* in-place operator (+=, bound_position) changes a cell.                  *)
(***************************************************************************)
\* A new object with value v: the memory afterwards and the new address.
Alloc(h, v) == [heap |-> Append(h, v), at |-> Len(h) + 1]

\* A mutant of VectorDuplicate: the object itself is handed back.
VectorShared(h, a) == [heap |-> h, at |-> a]

\* Vector.duplicate: a new Vector with the components of the one at a.
VectorDuplicate(h, a) == Alloc(h, Vector(h[a].x, h[a].y))

\* Bounds.duplicate: a new Bounds built from the limits of the one at a.
BoundsDuplicate(h, a) == Alloc(h, Duplicate(h[a]))

\* The attributes that hold objects, and an object with the values its
\* attributes point to.
ObjectFields == {"position", "bounds", "direction"}
Read(h, o) == [f \in DOMAIN o |-> IF f \in ObjectFields THEN h[o[f]] ELSE o[f]]
ReadOptional(h, o) == IF IsNone(o) THEN None ELSE Some(Read(h, Val(o)))

\* The values of everything followed: the player, its bullet, their snapshots.
Values(h, r) ==
    [player |-> Read(h, r.player), bullet |-> ReadOptional(h, r.bullet),
     pinfo |-> ReadOptional(h, r.pinfo), binfo |-> ReadOptional(h, r.binfo)]

\* PlayerInformation.__init__ on the player's position and bounds objects.
HeapPlayerInformation(h, p) ==
    Only({ Only({ [heap |-> bnd.heap,
                   info |-> [radius |-> PLAYER_RADIUS, position |-> pos.at, bounds |-> bnd.at]] :
                  bnd \in { BoundsDuplicate(pos.heap, p.bounds) } }) :
           pos \in { VectorDuplicate(h, p.position) } })

\* BulletInformation.__init__ on the bullet's position and direction objects.
HeapBulletInformation(h, b) ==
    Only({ Only({ [heap |-> dir.heap,
                   info |-> [radius |-> BULLET_RADIUS, position |-> pos.at, direction |-> dir.at]] :
                  dir \in { VectorDuplicate(pos.heap, b.direction) } }) :
           pos \in { VectorDuplicate(h, b.position) } })

\* A mutant of Spawn: the origin is computed in place on the shooter's
\* position object, which the bullet then holds.
SpawnInPlace(h, p, b) == [heap |-> [h EXCEPT ![p.position] = b.position], at |-> p.position]

\* Player.shoot, line 180: the origin of bullet b is the result of
\* Vector.__mul__ and Vector.__add__, a new Vector.
Spawn(h, p, b) == Alloc(h, b.position)

HeapPositions == {Vector(400, 400), Vector(700, 790)}
HeapDirections == {EAST, SOUTH}
HeapAims == {EAST, NORTH, Zero, Thirds(1, 0)}
HeapTime == 50

\* The state after Player(...), set_bounds and set_position, a cooldown later.
HeapInit ==
    /\ IdleBounds
    /\ IdleStrategies
    /\ made = Unbuilt
    /\ players = <<>>
    /\ bullets = <<>>
    /\ now = 100
    /\ frame = 0
    /\ last = <<>>
    /\ shotLog = <<>>
    /\ calls = 0
    /\ \E pos \in HeapPositions :
         \E p \in {MakePlayer(1, DEFAULT_STATS, pos, 0)} :
           /\ heap = <<p.position, p.bounds>>
           /\ refs = [player |-> [p EXCEPT !.position = 1, !.bounds = 2],
                      bullet |-> None, pinfo |-> None, binfo |-> None,
                      op |-> "init", aim |-> Zero, fired |-> FALSE,
                      before |-> [player |-> p, bullet |-> None,
                                  pinfo |-> None, binfo |-> None]]

\* The history kept with every call: its name, and the values before it.
Called(r, op) == [r EXCEPT !.op = op, !.fired = FALSE, !.before = Values(heap, refs)]

HeapCall ==
    /\ calls < MaxCalls
    /\ calls' = calls + 1
    /\ UNCHANGED <<players, bullets, now, frame, last, shotLog>>
    /\ UNCHANGED boundsVars
    /\ UNCHANGED strategyVars
    /\ UNCHANGED made

\* info = player.get_info()
HeapPlayerGetInfo ==
    /\ HeapCall
    /\ \E made_info \in {HeapPlayerInformation(heap, refs.player)} :
           /\ heap' = made_info.heap
           /\ refs' = [Called(refs, "pinfo") EXCEPT !.pinfo = Some(made_info.info)]

\* info = bullet.get_info()
HeapBulletGetInfo ==
    /\ HeapCall
    /\ ~IsNone(refs.bullet)
    /\ \E made_info \in {HeapBulletInformation(heap, Val(refs.bullet))} :
           /\ heap' = made_info.heap
           /\ refs' = [Called(refs, "binfo") EXCEPT !.binfo = Some(made_info.info)]

\* player.move(direction, delta_time): += and bound_position work in place
\* on the position object.
HeapPlayerMove ==
    /\ HeapCall
    /\ \E direction \in HeapDirections :
           heap' = [heap EXCEPT ![refs.player.position] =
                        Move(Read(heap, refs.player), direction, HeapTime).position]
    /\ refs' = Called(refs, "pmove")

\* bullet.move(delta_time): += works in place on the position object.
HeapBulletMove ==
    /\ HeapCall
    /\ ~IsNone(refs.bullet)
    /\ heap' = [heap EXCEPT ![Val(refs.bullet).position] =
                    BulletMove(Read(heap, Val(refs.bullet)), HeapTime).position]
    /\ refs' = Called(refs, "bmove")

\* bullet = player.shoot(direction): a returned bullet holds the origin and
\* the normalised direction, both new objects.
HeapShoot ==
    /\ HeapCall
    /\ \E direction \in HeapAims :
         \E shot \in {Shoot(Read(heap, refs.player), direction, now)} :
           IF IsNone(shot.bullet)
           THEN /\ heap' = heap
                /\ refs' = [Called(refs, "shoot") EXCEPT !.aim = direction]
           ELSE \E pos \in {Spawn(heap, refs.player, Val(shot.bullet))} :
                \E dir \in {Alloc(pos.heap, Val(shot.bullet).direction)} :
                  /\ heap' = dir.heap
                  /\ refs' = [Called(refs, "shoot") EXCEPT
                                 !.aim = direction,
                                 !.fired = TRUE,
                                 !.player.last_shot_time = shot.player.last_shot_time,
                                 !.bullet = Some([Val(shot.bullet) EXCEPT
                                                     !.position = pos.at,
                                                     !.direction = dir.at])]

\* A strategy writes into a snapshot it was given: info.position.x += 7,
\* info.direction.x += 7 or info.bounds.x_max = 100.
HeapTamper ==
    /\ HeapCall
    /\ \E o \in {refs.pinfo, refs.binfo} :
           /\ ~IsNone(o)
           /\ \E f \in DOMAIN Val(o) \cap ObjectFields :
                  heap' = [heap EXCEPT ![Val(o)[f]] =
                               IF f = "bounds" THEN [@ EXCEPT !.x_max = Some(100)]
                               ELSE Vector(@.x + 7, @.y)]
    /\ refs' = Called(refs, "tamper")

HeapNext ==
    \/ HeapPlayerGetInfo
    \/ HeapBulletGetInfo
    \/ HeapPlayerMove
    \/ HeapBulletMove
    \/ HeapShoot
    \/ HeapTamper

SpecHeap == HeapInit /\ [][HeapNext]_vars

\* The values of everything followed, as they are now.
Current == Values(heap, refs)

\* C22: get_info hands out copies: the snapshot made by a get_info call has
\* the values of the live entity; writing into a snapshot's position,
\* direction or bounds leaves the player and the bullet as they were; and
\* moving the player or the bullet leaves the snapshots as they were.
C22_SnapshotsAreCopies ==
    /\ refs.op = "pinfo" =>
           /\ Val(Current.pinfo) = PlayerGetInfo(Current.player)
           /\ Current.player = refs.before.player
    /\ refs.op = "binfo" =>
           /\ Val(Current.binfo) = BulletGetInfo(Val(Current.bullet))
           /\ Current.bullet = refs.before.bullet
    /\ refs.op = "tamper" =>
           /\ Current.player = refs.before.player
           /\ Current.bullet = refs.before.bullet
    /\ refs.op \in {"pmove", "bmove"} =>
           /\ Current.pinfo = refs.before.pinfo
           /\ Current.binfo = refs.before.binfo

\* C22 witness: the player has moved after its snapshot was taken, and the
\* snapshot still shows the position from before the move.
C22_Witness ==
    /\ refs.op = "pmove"
    /\ ~IsNone(refs.pinfo)
    /\ Val(Current.pinfo).position = refs.before.player.position
    /\ Current.player.position # refs.before.player.position

\* The last call was a shoot that returned a bullet.
Shot == refs.op = "shoot" /\ refs.fired

\* Where the claim says the bullet is created.
SpawnPoint ==
    VAdd(refs.before.player.position, Times(refs.aim, PLAYER_RADIUS + BULLET_RADIUS + 1))

\* The bullet's position is a Vector object of its own, the shooter stays
\* where it was when it shoots, and advancing the bullet leaves the shooter
\* as it was.
ShooterUntouched ==
    /\ Shot =>
           /\ Val(Current.bullet).position = SpawnPoint
           /\ Val(refs.bullet).position # refs.player.position
           /\ Current.player.position = refs.before.player.position
    /\ refs.op = "bmove" => Current.player = refs.before.player

\* C24 as claimed: every bullet returned by shoot is created at position +
\* direction * (Player.RADIUS + Bullet.RADIUS + 1), farther from the shooter's
\* centre than the two radii, as an object separate from the shooter's
\* position, so that advancing it never moves the shooter.
C24_Original ==
    /\ ShooterUntouched
    /\ Shot => ~Within(refs.before.player.position, Val(Current.bullet).position,
                       PLAYER_RADIUS + BULLET_RADIUS)

\* C24 as amended: the same, with the distance from the shooter claimed for
\* directions of length 1 or more only; shoot does not normalise the
\* direction it scales, so a shorter one spawns the bullet inside the two
\* radii.
C24_SpawnsClearOfShooter ==
    /\ ShooterUntouched
    /\ (Shot /\ ~IsThirds(refs.aim)) =>
           ~Within(refs.before.player.position, Val(Current.bullet).position,
                   PLAYER_RADIUS + BULLET_RADIUS)

\* C24 witness: a bullet shot east with a unit direction has been advanced
\* once: it is 21 + 40 px east of the shooter, who has not moved.
C24_Witness ==
    /\ refs.op = "bmove"
    /\ refs.aim = EAST
    /\ Val(Current.bullet).position =
           VAdd(Current.player.position, Vector(PLAYER_RADIUS + BULLET_RADIUS + 1 + 40, 0))
    /\ Current.player = refs.before.player

====
